---- MODULE Spec2Model ----
(***************************************************************************)
(* Math-Dungeon: the turn-based battle engine (BattleManager, AttackSystem, *)
(* CharacterStats, Enemy) as documented in docs/ALGORITHMS.md, with the     *)
(* BattleUI component that drives it.                                       *)
(*                                                                          *)
(* Numbers.  The JavaScript code computes in IEEE doubles and floors.  The  *)
(* model computes the same values in integers: floor(x * 0.6) is written    *)
(* (x * 6) \div 10, floor(x * 0.20) is x \div 5, and so on.  For the values *)
(* that occur below the two agree: the double product of an integer up to   *)
(* 5000 with 0.2, 0.3, 0.5, 0.6, 0.8, 1.1, 1.2, 1.5, 2.5 or 5.0 floors to   *)
(* the exact quotient, and so does the product with 1.15 of every integer   *)
(* below 400 but 100, 180, 200, 220, 340, 360 and 380 (100 * 1.15 floors to *)
(* 114), none of which occurs, and the product of an integer with           *)
(* 1 + k * 0.05 for a level k + 1 <= 8.  (Beyond that the double can floor  *)
(* one lower, never higher.)                                                *)
(***************************************************************************)
EXTENDS Integers, Sequences, FiniteSets, TLC

VARIABLES
    battleState,            \* BattleManager.battleState
    hero,                   \* BattleManager.hero.stats (CharacterStats)
    enemy,                  \* BattleManager.enemy(.stats), NullEnemy before startBattle
    battleMessageHistory,   \* BattleManager.battleMessageHistory
    currentMathProblem,     \* BattleManager.currentMathProblem (0 = null)
    turnSystem,             \* BattleManager.turnSystem (TurnSystem)
    config,                 \* constructor arguments: grade, unit difficulty, difficulty,
                            \* and whether the unit's generator can return nothing
    pendingTimers,          \* setTimeout(() => this.enemyTurn(), 1000) not yet fired
    lastOp,                 \* the public operation called last
    lastResult,             \* and what it returned
    problemsGenerated,      \* calls of the Problem Generator so far
    saveCount,              \* calls of hero.stats.save() so far
    submits,                \* accepted submitAnswer calls so far
    battles,                \* startBattle calls so far
    hitsSinceFull,          \* enemy hits on the hero since it last had full health (-1: never full)
    generatorFailures,      \* calls of the Problem Generator that returned nothing
    savedData,              \* localStorage 'math_dungeon_save' as save() wrote it last
    lastAttack,             \* the side whose attack took effect last on this manager ("none" so far)
    fn,                     \* the pure-function specifications' call record
    ui,                     \* BattleUI: mounted or not, its React state battleState as
                            \* rendered and as set last, the return-to-map timer, the
                            \* polling interval, the updates the polling has applied,
                            \* the branch the submit handler took last
    audio                   \* the AudioManager singleton and the oscillators it started

vars == <<battleState, hero, enemy, battleMessageHistory, currentMathProblem,
          turnSystem, config, pendingTimers, lastOp, lastResult,
          problemsGenerated, saveCount, submits, battles, hitsSinceFull,
          generatorFailures, savedData, lastAttack, fn, ui, audio>>

battleVars == <<battleState, hero, enemy, battleMessageHistory, currentMathProblem,
                turnSystem, config, pendingTimers, lastOp, lastResult,
                problemsGenerated, saveCount, submits, battles, hitsSinceFull,
                generatorFailures, savedData, lastAttack>>

(***************************************************************************)
(* Bounds of the model.                                                     *)
(***************************************************************************)
MaxSubmits == 5      \* accepted submitAnswer calls explored
MaxBattles == 2      \* startBattle calls explored
MaxGeneratorFailures == 1  \* Problem Generator calls that return nothing
MaxAttack == 20      \* attack values given to calculateDamage and to levelUp
MaxBonus == 5        \* weapon bonus values given to calculateDamage
MaxDefense == 30     \* defense values given to calculateDamage
MaxNominal == 30     \* nominal damage values given to the boss damage cap
MaxLevel == 6        \* hero levels given to the boss damage cap
MaxHeroHP == 40      \* hero maxHP values given to the boss damage cap and to levelUp
MaxExp == 150        \* experience awards given to addExperience
MaxHeroDefense == 10 \* defense values given to levelUp
MaxToNext == 4       \* small experienceToNextLevel values given to levelUp
MaxUnitDifficulty == 5  \* unit difficulty values given to the enemy difficulty tier
MaxAmount == 6       \* damage amounts given to applyDamage, from -MaxAmount on
MaxTargetHP == 8     \* currentHP values of the target given to applyDamage
MaxSearchGrade == 7  \* grade numbers of the arrays given to binarySearchGrade
MaxNameLen == 2      \* letters of a unit name given to findUnit
MaxUnits == 3        \* units of the grade given to findUnit
MaxOscillators == 5  \* background-music oscillators created in one run
MaxGrade == 12       \* this.grade: grade level (1-12)

(***************************************************************************)
(* Arithmetic helpers.                                                      *)
(***************************************************************************)
Max(a, b) == IF a >= b THEN a ELSE b
Min(a, b) == IF a <= b THEN a ELSE b

\* Math.random() variance of calculateDamage: an integer 0..5
VarianceRange == 0..5

(***************************************************************************)
(* GAME_DIFFICULTY_SETTINGS, every multiplier in tenths.                    *)
(***************************************************************************)
GAME_DIFFICULTY_SETTINGS ==
    [easy      |-> [bossHealthMultiplier |-> 6,  bossAttackMultiplier |-> 5,
                    playerDamageMultiplier |-> 15, experienceMultiplier |-> 8,
                    wrongAnswerPenalty |-> 3],
     medium    |-> [bossHealthMultiplier |-> 10, bossAttackMultiplier |-> 10,
                    playerDamageMultiplier |-> 10, experienceMultiplier |-> 12,
                    wrongAnswerPenalty |-> 5],
     hard      |-> [bossHealthMultiplier |-> 15, bossAttackMultiplier |-> 13,
                    playerDamageMultiplier |-> 8,  experienceMultiplier |-> 25,
                    wrongAnswerPenalty |-> 3],
     nightmare |-> [bossHealthMultiplier |-> 20, bossAttackMultiplier |-> 18,
                    playerDamageMultiplier |-> 6,  experienceMultiplier |-> 50,
                    wrongAnswerPenalty |-> 2]]

DifficultyKeys == {"easy", "medium", "hard", "nightmare"}

\* this.difficultySettings = GAME_DIFFICULTY_SETTINGS[difficultyLevel]
difficultySettings == GAME_DIFFICULTY_SETTINGS[config.difficulty]

\* floor(x * m) for a multiplier m given in tenths
Scale10(x, m10) == (x * m10) \div 10

(***************************************************************************)
(* CharacterStats                                                           *)
(***************************************************************************)
\* new CharacterStats(config) with the given fields, the rest defaulted
CharacterStats(maxHP, currentHP, attack, defense, level, experience, toNext, gold) ==
    [maxHP |-> maxHP, currentHP |-> currentHP, attack |-> attack,
     defense |-> defense, level |-> level, experience |-> experience,
     experienceToNextLevel |-> toNext, gold |-> gold,
     equippedWeapon |-> [damageBonus |-> 0]]

\* mutant of levelUp: the whole new maxHP is added to currentHP
levelUpAddsMaxHP(s) ==
    LET newMaxHP == (s.maxHP * 12) \div 10
    IN  [s EXCEPT !.level = s.level + 1,
                  !.maxHP = newMaxHP,
                  !.currentHP = s.currentHP + newMaxHP,
                  !.attack = (s.attack * 115) \div 100,
                  !.defense = (s.defense * 11) \div 10,
                  !.experienceToNextLevel = (s.experienceToNextLevel * 15) \div 10]

\* mutant of levelUp: currentHP is restored to the new maxHP
levelUpHealsFully(s) ==
    LET newMaxHP == (s.maxHP * 12) \div 10
    IN  [s EXCEPT !.level = s.level + 1,
                  !.maxHP = newMaxHP,
                  !.currentHP = newMaxHP,
                  !.attack = (s.attack * 115) \div 100,
                  !.defense = (s.defense * 11) \div 10,
                  !.experienceToNextLevel = (s.experienceToNextLevel * 15) \div 10]

\* mutant of levelUp: the level goes down by one
levelUpLowersLevel(s) ==
    LET newMaxHP == (s.maxHP * 12) \div 10
    IN  [s EXCEPT !.level = s.level - 1,
                  !.maxHP = newMaxHP,
                  !.currentHP = s.currentHP + (newMaxHP - s.maxHP),
                  !.attack = (s.attack * 115) \div 100,
                  !.defense = (s.defense * 11) \div 10,
                  !.experienceToNextLevel = (s.experienceToNextLevel * 15) \div 10]

\* CharacterStats.levelUp()
levelUp(s) ==
    LET newMaxHP == (s.maxHP * 12) \div 10
    IN  [s EXCEPT !.level = s.level + 1,
                  !.maxHP = newMaxHP,
                  !.currentHP = s.currentHP + (newMaxHP - s.maxHP),
                  !.attack = (s.attack * 115) \div 100,
                  !.defense = (s.defense * 11) \div 10,
                  !.experienceToNextLevel = (s.experienceToNextLevel * 15) \div 10]

\* mutant of levelUpLoop: an if in place of the while
levelUpOnce(s) ==
    IF s.experience >= s.experienceToNextLevel
    THEN levelUp([s EXCEPT !.experience = s.experience - s.experienceToNextLevel])
    ELSE s

\* the while loop of CharacterStats.addExperience, from the state after
\* this.experience += exp
RECURSIVE levelUpLoop(_)
levelUpLoop(s) ==
    IF s.experience >= s.experienceToNextLevel
    THEN levelUpLoop(levelUp([s EXCEPT !.experience = s.experience - s.experienceToNextLevel]))
    ELSE s

\* mutant of addExperience: the call always returns false
addExperienceReturnsFalse(s, exp) ==
    [stats |-> levelUpLoop([s EXCEPT !.experience = s.experience + exp]),
     leveledUp |-> FALSE]

\* CharacterStats.addExperience(exp): the stats afterwards and the value returned
addExperience(s, exp) ==
    LET added == [s EXCEPT !.experience = s.experience + exp]
    IN  [stats |-> levelUpLoop(added),
         leveledUp |-> added.experience >= added.experienceToNextLevel]

\* mutant of isAlive: a character with no health left counts as alive
isAliveAtZero(s) == s.currentHP >= 0

\* CharacterStats.isAlive()
isAlive(s) == s.currentHP > 0

\* mutant of save: the gold is left out of what is stored
saveWithoutGold(s) == [s EXCEPT !.gold = 0]

\* CharacterStats.save(): the saveData written to localStorage
save(s) == s

\* localStorage before the first save()
NoSaveData == CharacterStats(0, 0, 0, 0, 0, 0, 0, 0)

\* a hero as new CharacterStats() makes it
FreshHero == CharacterStats(400, 400, 10, 5, 1, 0, 100, 0)

(***************************************************************************)
(* AttackSystem                                                             *)
(***************************************************************************)
\* mutant of rawDamageHalves: a wrong answer halves the base and the variance
rawDamageHalvesVarianceHalved(attack, weaponBonus, defense, wasCorrect, variance) ==
    LET baseDamage == attack + weaponBonus
    IN  IF wasCorrect THEN 2 * baseDamage + 2 * variance - defense
        ELSE baseDamage + variance - defense

\* totalDamage - defensePenalty of the damage formula, in halves
rawDamageHalves(attack, weaponBonus, defense, wasCorrect, variance) ==
    LET baseDamage == attack + weaponBonus
        baseHalves == IF wasCorrect THEN 2 * baseDamage ELSE baseDamage
    IN  baseHalves + 2 * variance - defense

\* Math.floor of a number of halves
floorOfHalves(halves) == halves \div 2

\* mutant of calculateDamage: the floor of 1 is missing
calculateDamageUnclamped(attack, weaponBonus, defense, wasCorrect, variance) ==
    floorOfHalves(rawDamageHalves(attack, weaponBonus, defense, wasCorrect, variance))

\* AttackSystem.calculateDamage(attacker, defender, wasCorrect), the random
\* variance made an argument
calculateDamage(attack, weaponBonus, defense, wasCorrect, variance) ==
    Max(1, floorOfHalves(rawDamageHalves(attack, weaponBonus, defense, wasCorrect, variance)))

\* CharacterStats.takeDamage(damage): the stats afterwards
takeDamage(s, damage) ==
    LET actualDamage == Max(1, damage)
    IN  [s EXCEPT !.currentHP = Max(0, s.currentHP - actualDamage)]

\* mutant of applyDamage: the hit goes through takeDamage
applyDamageViaTakeDamage(s, amount) == takeDamage(s, amount)

\* AttackSystem.applyDamage(target, amount): the target's stats afterwards
\* (the value returned is isAlive of them)
applyDamage(s, amount) ==
    [s EXCEPT !.currentHP = Max(0, s.currentHP - Max(0, amount))]

(***************************************************************************)
(* BattleManager.figureOutHowMuchDamageTheBossDoes, in twentieths           *)
(***************************************************************************)
\* mutant: Math.max where the code has Math.min
bossDamageLargerValue(bossNormalDamage, heroLevel, heroMaxHP) ==
    LET levelsAboveOne == Max(0, heroLevel - 1)
        boosted20 == bossNormalDamage * (20 + levelsAboveOne)
        maxAllowed20 == heroMaxHP * 4
    IN  Max(1, Max(boosted20, maxAllowed20) \div 20)

\* mutant: the safety cap is left out
bossDamageUncapped(bossNormalDamage, heroLevel, heroMaxHP) ==
    LET levelsAboveOne == Max(0, heroLevel - 1)
        boosted20 == bossNormalDamage * (20 + levelsAboveOne)
    IN  Max(1, boosted20 \div 20)

figureOutHowMuchDamageTheBossDoes(bossNormalDamage, heroLevel, heroMaxHP) ==
    LET levelsAboveOne == Max(0, heroLevel - 1)
        boosted20 == bossNormalDamage * (20 + levelsAboveOne)
        maxAllowed20 == heroMaxHP * 4
    IN  Max(1, Min(boosted20, maxAllowed20) \div 20)

(***************************************************************************)
(* Enemy                                                                    *)
(***************************************************************************)
NullEnemy ==
    [name |-> "null", maxHP |-> 0, currentHP |-> 0, attack |-> 0,
     defense |-> 0, level |-> 0]

\* Enemy.createForGrade(grade, difficulty)
createForGrade(grade, difficulty) ==
    LET baseHP == 50 + (grade * 10) + (difficulty * 20)
        baseAttack == 5 + grade + (difficulty * 2)
        baseDefense == 2 + (grade \div 2) + difficulty
        name == IF grade <= 3 THEN "Math Slime"
                ELSE IF grade <= 6 THEN "Equation Goblin"
                ELSE IF grade <= 9 THEN "Algebra Skeleton"
                ELSE "Calculus Dragon"
    IN  [name |-> name, maxHP |-> baseHP, currentHP |-> baseHP,
         attack |-> baseAttack, defense |-> baseDefense, level |-> grade]

(***************************************************************************)
(* TurnSystem                                                               *)
(***************************************************************************)
\* TurnSystem.reset()
turnReset == [currentTurn |-> "none", turnCount |-> 0]

\* TurnSystem.startTurn(side)
turnStart(t, side) == [t EXCEPT !.currentTurn = side]

\* TurnSystem.endTurn(): the player's turn passes to the enemy; the enemy's
\* turn closes the exchange
turnEnd(t) ==
    IF t.currentTurn = "player" THEN [t EXCEPT !.currentTurn = "enemy"]
    ELSE IF t.currentTurn = "enemy"
         THEN [currentTurn |-> "player", turnCount |-> t.turnCount + 1]
         ELSE t

(***************************************************************************)
(* Battle log entries and returned results                                  *)
(***************************************************************************)
\* a line of the log: which of the template strings it is (the numbers and
\* the enemy name interpolated into a template are left out of the entry)
LogEntry(kind, a, b) == kind

NoResult ==
    [keys |-> {}, success |-> FALSE, correct |-> FALSE, damage |-> 0,
     enemyHP |-> 0, victory |-> FALSE, expGained |-> 0, goldGained |-> 0,
     leveledUp |-> FALSE, message |-> "none"]

\* { success: false, message: 'Not your turn!' }
NotYourTurn ==
    [NoResult EXCEPT !.keys = {"success", "message"},
                     !.message = "Not your turn!"]

\* the object returned by the victory branch of submitAnswer
VictoryResult(expEarned, goldEarned, leveledUp) ==
    [NoResult EXCEPT !.keys = {"success", "victory", "expGained", "goldGained", "leveledUp"},
                     !.success = TRUE, !.victory = TRUE,
                     !.expGained = expEarned, !.goldGained = goldEarned,
                     !.leveledUp = leveledUp]

\* the object returned when the enemy is still alive
HitResult(isCorrect, damage, enemyHP) ==
    [NoResult EXCEPT !.keys = {"success", "correct", "damage", "enemyHP", "message"},
                     !.success = TRUE, !.correct = isCorrect,
                     !.damage = damage, !.enemyHP = enemyHP,
                     !.message = IF isCorrect THEN "correct" ELSE "wrong"]

(***************************************************************************)
(* BattleManager                                                            *)
(***************************************************************************)
\* what escapes an operation when the Problem Generator returned nothing
GeneratorFailure == [NoResult EXCEPT !.message = "no problem generated"]

\* BattleManager.createNewMathProblem(): one call of the Problem Generator;
\* a problem it returns becomes the current one, and when it returns
\* nothing the failure goes to the caller and the current problem stays
createNewMathProblem ==
    /\ problemsGenerated' = problemsGenerated + 1
    /\ \/ /\ currentMathProblem' = problemsGenerated + 1
          /\ lastResult' = NoResult
          /\ UNCHANGED generatorFailures
       \/ /\ config.generatorCanFail
          /\ generatorFailures < MaxGeneratorFailures
          /\ generatorFailures' = generatorFailures + 1
          /\ lastResult' = GeneratorFailure
          /\ UNCHANGED currentMathProblem

\* the enemy difficulty tier of startBattle, STEP 1
enemyDifficultyLevel(grade, unitDifficulty, difficulty) ==
    LET startingDifficulty == IF unitDifficulty # 0 THEN unitDifficulty
                              ELSE (grade + 1) \div 2
    IN  IF difficulty = "nightmare" THEN Min(5, startingDifficulty + 2)
        ELSE IF difficulty = "hard" THEN Min(5, startingDifficulty + 1)
        ELSE startingDifficulty

\* the enemy of startBattle, STEPS 2 and 3
scaledEnemy(grade, unitDifficulty, difficulty) ==
    LET created == createForGrade(grade, enemyDifficultyLevel(grade, unitDifficulty, difficulty))
        newHealth == Scale10(created.maxHP,
                             GAME_DIFFICULTY_SETTINGS[difficulty].bossHealthMultiplier)
    IN  [created EXCEPT !.maxHP = newHealth, !.currentHP = newHealth]

\* mutant of startBattle: STEP 6 is left out
startBattleWithoutProblem ==
    /\ enemy' = scaledEnemy(config.grade, config.unitDifficulty, config.difficulty)
    /\ turnSystem' = turnStart(turnReset, "player")
    /\ battleState' = "player-turn"
    /\ battleMessageHistory' = <<LogEntry("appeared", 0, 0)>>
    /\ lastResult' = NoResult
    /\ UNCHANGED <<problemsGenerated, currentMathProblem, generatorFailures>>
    /\ lastOp' = "startBattle"
    /\ battles' = battles + 1
    /\ UNCHANGED <<hero, config, pendingTimers, saveCount, submits, hitsSinceFull,
                   savedData, lastAttack>>

\* mutant of startBattle: the turn system is not reset
startBattleWithoutReset ==
    /\ enemy' = scaledEnemy(config.grade, config.unitDifficulty, config.difficulty)
    /\ turnSystem' = turnStart(turnSystem, "player")
    /\ battleState' = "player-turn"
    /\ battleMessageHistory' = <<LogEntry("appeared", 0, 0)>>
    /\ createNewMathProblem
    /\ lastOp' = "startBattle"
    /\ battles' = battles + 1
    /\ UNCHANGED <<hero, config, pendingTimers, saveCount, submits, hitsSinceFull,
                   savedData, lastAttack>>

\* BattleManager.startBattle()
startBattle ==
    /\ enemy' = scaledEnemy(config.grade, config.unitDifficulty, config.difficulty)
    /\ turnSystem' = turnStart(turnReset, "player")
    /\ battleState' = "player-turn"
    /\ battleMessageHistory' = <<LogEntry("appeared", 0, 0)>>
    /\ createNewMathProblem
    /\ lastOp' = "startBattle"
    /\ battles' = battles + 1
    /\ UNCHANGED <<hero, config, pendingTimers, saveCount, submits, hitsSinceFull,
                   savedData, lastAttack>>

\* the damage of submitAnswer, STEP 2
playerDamage(isCorrect, variance) ==
    LET base == calculateDamage(hero.attack, 0, enemy.defense, isCorrect, variance)
        scaled == Scale10(base, difficultySettings.playerDamageMultiplier)
    IN  IF isCorrect THEN scaled
        ELSE Max(1, Scale10(scaled, difficultySettings.wrongAnswerPenalty))

\* submitAnswer when it is not the player's turn
submitAnswerRejected ==
    /\ lastOp' = "submitAnswer"
    /\ lastResult' = NotYourTurn
    /\ UNCHANGED <<battleState, hero, enemy, battleMessageHistory, currentMathProblem,
                   turnSystem, config, pendingTimers, problemsGenerated, saveCount,
                   submits, battles, hitsSinceFull, generatorFailures, savedData,
                   lastAttack>>

\* mutant of submitAnswerAccepted: no enemy turn is scheduled
submitAnswerAcceptedWithoutTimer(isCorrect, variance) ==
    LET damage == playerDamage(isCorrect, variance)
        hitEnemy == applyDamage(enemy, damage)
        enemyAlive == isAlive(hitEnemy)
        msg == LogEntry(IF isCorrect THEN "correct" ELSE "wrong", damage, 0)
        baseExp == enemy.level * 10
        expEarned == Scale10(baseExp, difficultySettings.experienceMultiplier)
        gained == addExperience(hero, expEarned)
        baseGold == enemy.level * 15
        goldEarned == Scale10(baseGold, difficultySettings.experienceMultiplier)
    IN  /\ enemy' = hitEnemy
        /\ lastOp' = "submitAnswer"
        /\ submits' = submits + 1
        /\ lastAttack' = "player"
        /\ IF ~enemyAlive
           THEN /\ battleState' = "victory"
                /\ hero' = [gained.stats EXCEPT !.gold = gained.stats.gold + goldEarned]
                /\ saveCount' = saveCount + 1
                /\ savedData' = save(hero')
                /\ battleMessageHistory' =
                       battleMessageHistory \o <<msg, LogEntry("victory", expEarned, goldEarned)>>
                /\ lastResult' = VictoryResult(expEarned, goldEarned, gained.leveledUp)
                /\ UNCHANGED <<turnSystem, pendingTimers>>
           ELSE /\ turnSystem' = turnEnd(turnSystem)
                /\ battleState' = "enemy-turn"
                /\ pendingTimers' = pendingTimers
                /\ battleMessageHistory' = Append(battleMessageHistory, msg)
                /\ lastResult' = HitResult(isCorrect, damage, hitEnemy.currentHP)
                /\ UNCHANGED <<hero, saveCount, savedData>>
        /\ UNCHANGED <<currentMathProblem, config, problemsGenerated, battles, hitsSinceFull,
                       generatorFailures>>

\* submitAnswer from STEP 1 on; isCorrect is what validateAnswer returned
submitAnswerAccepted(isCorrect, variance) ==
    LET damage == playerDamage(isCorrect, variance)
        hitEnemy == applyDamage(enemy, damage)
        enemyAlive == isAlive(hitEnemy)
        msg == LogEntry(IF isCorrect THEN "correct" ELSE "wrong", damage, 0)
        baseExp == enemy.level * 10
        expEarned == Scale10(baseExp, difficultySettings.experienceMultiplier)
        gained == addExperience(hero, expEarned)
        baseGold == enemy.level * 15
        goldEarned == Scale10(baseGold, difficultySettings.experienceMultiplier)
    IN  /\ enemy' = hitEnemy
        /\ lastOp' = "submitAnswer"
        /\ submits' = submits + 1
        /\ lastAttack' = "player"
        /\ IF ~enemyAlive
           THEN /\ battleState' = "victory"
                /\ hero' = [gained.stats EXCEPT !.gold = gained.stats.gold + goldEarned]
                /\ saveCount' = saveCount + 1
                /\ savedData' = save(hero')
                /\ battleMessageHistory' =
                       battleMessageHistory \o <<msg, LogEntry("victory", expEarned, goldEarned)>>
                /\ lastResult' = VictoryResult(expEarned, goldEarned, gained.leveledUp)
                /\ UNCHANGED <<turnSystem, pendingTimers>>
           ELSE /\ turnSystem' = turnEnd(turnSystem)
                /\ battleState' = "enemy-turn"
                /\ pendingTimers' = pendingTimers + 1
                /\ battleMessageHistory' = Append(battleMessageHistory, msg)
                /\ lastResult' = HitResult(isCorrect, damage, hitEnemy.currentHP)
                /\ UNCHANGED <<hero, saveCount, savedData>>
        /\ UNCHANGED <<currentMathProblem, config, problemsGenerated, battles, hitsSinceFull,
                       generatorFailures>>

\* mutant of submitAnswer: the guard also lets a call through in the enemy's turn
submitAnswerDuringEnemyTurn(isCorrect, variance) ==
    IF battleState \notin {"player-turn", "enemy-turn"}
    THEN submitAnswerRejected
    ELSE submitAnswerAccepted(isCorrect, variance)

\* mutant of submitAnswer: the guard also lets a call through after a victory
submitAnswerAfterVictory(isCorrect, variance) ==
    IF battleState \notin {"player-turn", "victory"}
    THEN submitAnswerRejected
    ELSE submitAnswerAccepted(isCorrect, variance)

\* BattleManager.submitAnswer(playerAnswer)
submitAnswer(isCorrect, variance) ==
    IF battleState # "player-turn"
    THEN submitAnswerRejected
    ELSE submitAnswerAccepted(isCorrect, variance)

\* enemyTurn when the guard returns at once
enemyTurnRejected ==
    /\ lastResult' = NoResult
    /\ UNCHANGED <<battleState, hero, enemy, battleMessageHistory, currentMathProblem,
                   turnSystem, config, problemsGenerated, saveCount, submits, battles,
                   hitsSinceFull, generatorFailures, savedData, lastAttack>>

\* mutant of enemyTurnOutcome: the surviving hero's log keeps only the newest line
enemyTurnOutcomeNewestLineOnly(finalDamage, hitHero, heroAlive) ==
    LET attackMsg == LogEntry("attacks", finalDamage, 0)
    IN  /\ hero' = hitHero
        /\ hitsSinceFull' = IF hitsSinceFull >= 0 THEN hitsSinceFull + 1 ELSE hitsSinceFull
        /\ lastAttack' = "enemy"
        /\ IF ~heroAlive
           THEN /\ battleState' = "defeat"
                /\ battleMessageHistory' =
                       battleMessageHistory \o <<attackMsg, LogEntry("defeat", 0, 0)>>
                /\ lastResult' = NoResult
                /\ UNCHANGED <<turnSystem, currentMathProblem, problemsGenerated,
                               generatorFailures>>
           ELSE /\ turnSystem' = turnEnd(turnSystem)
                /\ battleState' = "player-turn"
                /\ battleMessageHistory' = <<attackMsg>>
                /\ createNewMathProblem
        /\ UNCHANGED <<enemy, config, saveCount, savedData, submits, battles>>

\* enemyTurn from "Apply damage to hero" on
enemyTurnOutcome(finalDamage, hitHero, heroAlive) ==
    LET attackMsg == LogEntry("attacks", finalDamage, 0)
    IN  /\ hero' = hitHero
        /\ hitsSinceFull' = IF hitsSinceFull >= 0 THEN hitsSinceFull + 1 ELSE hitsSinceFull
        /\ lastAttack' = "enemy"
        /\ IF ~heroAlive
           THEN /\ battleState' = "defeat"
                /\ battleMessageHistory' =
                       battleMessageHistory \o <<attackMsg, LogEntry("defeat", 0, 0)>>
                /\ lastResult' = NoResult
                /\ UNCHANGED <<turnSystem, currentMathProblem, problemsGenerated,
                               generatorFailures>>
           ELSE /\ turnSystem' = turnEnd(turnSystem)
                /\ battleState' = "player-turn"
                /\ battleMessageHistory' = Append(battleMessageHistory, attackMsg)
                /\ createNewMathProblem
        /\ UNCHANGED <<enemy, config, saveCount, savedData, submits, battles>>

\* mutant of enemyTurnAccepted: the hero's life is tested before the hit lands
enemyTurnAcceptedStaleCheck(variance) ==
    LET baseDamage == calculateDamage(enemy.attack, 0, hero.defense, TRUE, variance)
        finalDamage == figureOutHowMuchDamageTheBossDoes(baseDamage, hero.level, hero.maxHP)
    IN  enemyTurnOutcome(finalDamage, applyDamage(hero, finalDamage), isAlive(hero))

\* mutant of enemyTurnAccepted: the boss's damage is scaled by bossAttackMultiplier
enemyTurnAcceptedScaled(variance) ==
    LET baseDamage == Scale10(calculateDamage(enemy.attack, 0, hero.defense, TRUE, variance),
                              difficultySettings.bossAttackMultiplier)
        finalDamage == figureOutHowMuchDamageTheBossDoes(baseDamage, hero.level, hero.maxHP)
        hitHero == applyDamage(hero, finalDamage)
    IN  enemyTurnOutcome(finalDamage, hitHero, isAlive(hitHero))

\* mutant of enemyTurnAccepted: the hit also takes the hero's defense away
enemyTurnAcceptedBreaksArmour(variance) ==
    LET baseDamage == calculateDamage(enemy.attack, 0, hero.defense, TRUE, variance)
        finalDamage == figureOutHowMuchDamageTheBossDoes(baseDamage, hero.level, hero.maxHP)
        hitHero == [applyDamage(hero, finalDamage) EXCEPT !.defense = 0]
    IN  enemyTurnOutcome(finalDamage, hitHero, isAlive(hitHero))

\* enemyTurn after its guard
enemyTurnAccepted(variance) ==
    LET baseDamage == calculateDamage(enemy.attack, 0, hero.defense, TRUE, variance)
        finalDamage == figureOutHowMuchDamageTheBossDoes(baseDamage, hero.level, hero.maxHP)
        hitHero == applyDamage(hero, finalDamage)
    IN  enemyTurnOutcome(finalDamage, hitHero, isAlive(hitHero))

\* mutant of enemyTurn: the guard lets a call through after a defeat
enemyTurnRunsAfterDefeat(variance) ==
    IF battleState \notin {"enemy-turn", "defeat"}
    THEN enemyTurnRejected
    ELSE enemyTurnAccepted(variance)

\* mutant of enemyTurn: the guard lets a call through after a victory
enemyTurnRunsAfterVictory(variance) ==
    IF battleState \notin {"enemy-turn", "victory"}
    THEN enemyTurnRejected
    ELSE enemyTurnAccepted(variance)

\* mutant of enemyTurn: the guard returns in every state
enemyTurnAlwaysReturns(variance) ==
    IF battleState = battleState
    THEN enemyTurnRejected
    ELSE enemyTurnAccepted(variance)

\* BattleManager.enemyTurn(); pendingTimers and lastOp are left to the caller
enemyTurn(variance) ==
    IF battleState # "enemy-turn"
    THEN enemyTurnRejected
    ELSE enemyTurnAccepted(variance)

(***************************************************************************)
(* The battle specification: a caller that may call every public operation  *)
(* in every state, and the timers set by submitAnswer.                      *)
(***************************************************************************)
\* heroes handed to the constructor: a frail beginner, a level-3 hero one
\* battle short of level 4, and a hero of very little health that one
\* victory takes up several levels
FrailHero == CharacterStats(5, 5, 3, 0, 1, 95, 100, 0)
SeasonedHero == CharacterStats(25, 25, 60, 4, 3, 220, 225, 40)
TinyHero == CharacterStats(3, 3, 60, 1, 1, 0, 3, 0)
\* a hero whose config (or save data) carries a weapon with a damage bonus
ArmedHero == [SeasonedHero EXCEPT !.equippedWeapon = [damageBonus |-> 5]]

\* the battles explored: who fights under which grade, unit difficulty
\* (0: the unit has none) and difficulty, all with a Problem Generator that
\* returns a problem at every call
Setups ==
    { [hero |-> FrailHero,
       config |-> [grade |-> 1, unitDifficulty |-> 1, difficulty |-> "easy",
                   generatorCanFail |-> FALSE]],
      [hero |-> FrailHero,
       config |-> [grade |-> 2, unitDifficulty |-> 0, difficulty |-> "hard",
                   generatorCanFail |-> FALSE]],
      [hero |-> SeasonedHero,
       config |-> [grade |-> 1, unitDifficulty |-> 1, difficulty |-> "easy",
                   generatorCanFail |-> FALSE]],
      [hero |-> SeasonedHero,
       config |-> [grade |-> 1, unitDifficulty |-> 0, difficulty |-> "medium",
                   generatorCanFail |-> FALSE]],
      [hero |-> TinyHero,
       config |-> [grade |-> 1, unitDifficulty |-> 0, difficulty |-> "nightmare",
                   generatorCanFail |-> FALSE]],
      [hero |-> TinyHero,
       config |-> [grade |-> 1, unitDifficulty |-> 1, difficulty |-> "easy",
                   generatorCanFail |-> FALSE]],
      [hero |-> ArmedHero,
       config |-> [grade |-> 1, unitDifficulty |-> 0, difficulty |-> "medium",
                   generatorCanFail |-> FALSE]] }

FnIdle ==
    [op |-> "none", attack |-> 0, bonus |-> 0, defense |-> 0, wasCorrect |-> FALSE,
     variance |-> 0, nominal |-> 0, level |-> 0, maxHP |-> 0, result |-> 0,
     stats |-> CharacterStats(0, 0, 0, 0, 0, 0, 0, 0), exp |-> 0,
     after |-> CharacterStats(0, 0, 0, 0, 0, 0, 0, 0), returned |-> FALSE,
     grade |-> 0, unitDifficulty |-> 0, difficulty |-> "none", amount |-> 0]

\* new AudioManager(): the audio context (if the browser has one), sound
\* enabled, no background music (0: null or undefined), nothing playing
AudioManager(hasContext) ==
    [audioContext |-> hasContext, soundEnabled |-> TRUE, backgroundMusic |-> 0,
     running |-> {}, created |-> 0, lastCall |-> "none"]

\* BattleUI before it is mounted: useState('waiting')
NoUI == [mounted |-> FALSE, battleState |-> "waiting", setBattleState |-> "waiting",
         returnTimer |-> FALSE, polling |-> FALSE, applied |-> 0,
         handlerBranch |-> "none"]

\* the battle manager right after its constructor
Constructed ==
    /\ ui = NoUI
    /\ battleState = "waiting"
    /\ enemy = NullEnemy
    /\ battleMessageHistory = <<>>
    /\ currentMathProblem = 0
    /\ turnSystem = turnReset
    /\ pendingTimers = 0
    /\ lastOp = "none"
    /\ lastResult = NoResult
    /\ problemsGenerated = 0
    /\ saveCount = 0
    /\ submits = 0
    /\ battles = 0
    /\ hitsSinceFull = IF hero.currentHP = hero.maxHP THEN 0 ELSE -1
    /\ generatorFailures = 0
    /\ savedData = NoSaveData
    /\ lastAttack = "none"

Init ==
    /\ \E setup \in Setups : hero = setup.hero /\ config = setup.config
    /\ Constructed
    /\ audio = AudioManager(TRUE)
    /\ fn = FnIdle

\* the UI (or any caller) starts the battle
StartBattle ==
    /\ battles < MaxBattles
    /\ startBattle
    /\ UNCHANGED <<fn, ui, audio>>

\* a caller submits an answer; the validator and the variance roll are inputs
SubmitAnswer ==
    /\ \E isCorrect \in BOOLEAN, variance \in VarianceRange :
          /\ (battleState = "player-turn") => (submits < MaxSubmits)
          /\ submitAnswer(isCorrect, variance)
    /\ UNCHANGED <<fn, ui, audio>>

\* a caller calls the public enemyTurn itself
EnemyTurnCall ==
    /\ \E variance \in VarianceRange : enemyTurn(variance)
    /\ lastOp' = "enemyTurn"
    /\ UNCHANGED <<pendingTimers, fn, ui, audio>>

\* mutant of TimerFires: a timer may fire before React has rendered
TimerFiresBeforeRender ==
    /\ pendingTimers > 0
    /\ pendingTimers' = pendingTimers - 1
    /\ \E variance \in VarianceRange : enemyTurn(variance)
    /\ lastOp' = "timer:enemyTurn"
    /\ UNCHANGED <<fn, ui, audio>>

\* a timer set by submitAnswer fires and runs enemyTurn; React has flushed
\* the render a handler asked for before the browser runs a 1000 ms timer
TimerFires ==
    /\ pendingTimers > 0
    /\ ui.mounted => ui.setBattleState = ui.battleState
    /\ pendingTimers' = pendingTimers - 1
    /\ \E variance \in VarianceRange : enemyTurn(variance)
    /\ lastOp' = "timer:enemyTurn"
    /\ UNCHANGED <<fn, ui, audio>>

Next == StartBattle \/ SubmitAnswer \/ EnemyTurnCall \/ TimerFires

Spec == Init /\ [][Next]_vars

(***************************************************************************)
(* The battle when the event loop runs every timer that setTimeout set:    *)
(* weak fairness of TimerFires, which stays enabled while a timer pends.   *)
(***************************************************************************)
TimersFireSetups ==
    { [hero |-> FrailHero,
       config |-> [grade |-> 2, unitDifficulty |-> 0, difficulty |-> "hard",
                   generatorCanFail |-> FALSE]],
      [hero |-> TinyHero,
       config |-> [grade |-> 1, unitDifficulty |-> 1, difficulty |-> "easy",
                   generatorCanFail |-> FALSE]] }

InitTimersFire ==
    /\ \E setup \in TimersFireSetups : hero = setup.hero /\ config = setup.config
    /\ Constructed
    /\ audio = AudioManager(TRUE)
    /\ fn = FnIdle

SpecTimersFire == InitTimersFire /\ [][Next]_vars /\ WF_vars(TimerFires)

(***************************************************************************)
(* The battle of a player who answers whenever it is their turn, with the  *)
(* timers firing: weak fairness of PlayerSubmits and of TimerFires.  The   *)
(* number of answers is not capped; the hero's health bounds it.           *)
(***************************************************************************)
PlayerPlaysSetups ==
    { [hero |-> FrailHero,
       config |-> [grade |-> 1, unitDifficulty |-> 0, difficulty |-> "medium",
                   generatorCanFail |-> FALSE]],
      [hero |-> FrailHero,
       config |-> [grade |-> 2, unitDifficulty |-> 0, difficulty |-> "hard",
                   generatorCanFail |-> FALSE]],
      [hero |-> TinyHero,
       config |-> [grade |-> 1, unitDifficulty |-> 0, difficulty |-> "nightmare",
                   generatorCanFail |-> FALSE]],
      [hero |-> TinyHero,
       config |-> [grade |-> 1, unitDifficulty |-> 1, difficulty |-> "easy",
                   generatorCanFail |-> FALSE]] }

InitPlayerPlays ==
    /\ \E setup \in PlayerPlaysSetups : hero = setup.hero /\ config = setup.config
    /\ Constructed
    /\ audio = AudioManager(TRUE)
    /\ fn = FnIdle

\* the player submits an answer in their turn
PlayerSubmits ==
    /\ battleState = "player-turn"
    /\ \E isCorrect \in BOOLEAN, variance \in VarianceRange :
          submitAnswer(isCorrect, variance)
    /\ UNCHANGED <<fn, ui, audio>>

NextPlayerPlays == StartBattle \/ PlayerSubmits \/ EnemyTurnCall \/ TimerFires

SpecPlayerPlays ==
    /\ InitPlayerPlays
    /\ [][NextPlayerPlays]_vars
    /\ WF_vars(PlayerSubmits)
    /\ WF_vars(TimerFires)

(***************************************************************************)
(* The battle as BattleUI drives it.  A handler sees the battleState of    *)
(* the last render; setBattleState takes effect at the next render.  The   *)
(* manager's enemy-turn timer is not cleared when BattleUI unmounts.       *)
(***************************************************************************)
UISetups ==
    { [hero |-> FrailHero,
       config |-> [grade |-> 2, unitDifficulty |-> 0, difficulty |-> "hard",
                   generatorCanFail |-> FALSE]],
      [hero |-> SeasonedHero,
       config |-> [grade |-> 1, unitDifficulty |-> 0, difficulty |-> "medium",
                   generatorCanFail |-> FALSE]],
      [hero |-> TinyHero,
       config |-> [grade |-> 1, unitDifficulty |-> 1, difficulty |-> "easy",
                   generatorCanFail |-> FALSE]] }

InitUI ==
    /\ \E setup \in UISetups : hero = setup.hero /\ config = setup.config
    /\ Constructed
    /\ audio = AudioManager(TRUE)
    /\ fn = FnIdle

\* the mount effect: new BattleManager, startBattle(), setBattleState
UIMount ==
    /\ ~ui.mounted
    /\ battles = 0
    /\ startBattle
    /\ ui' = [ui EXCEPT !.mounted = TRUE, !.setBattleState = battleState']
    /\ UNCHANGED <<fn, audio>>

\* React renders the component with the state set last
UIRender ==
    /\ ui.mounted
    /\ ui.setBattleState # ui.battleState
    /\ ui' = [ui EXCEPT !.battleState = ui.setBattleState,
                        !.polling = (ui.setBattleState = "enemy-turn")]
    /\ UNCHANGED <<battleVars, fn, audio>>

\* the submit handler of BattleUI, with a non-empty answer
UISubmit ==
    /\ ui.mounted
    /\ ui.battleState = "player-turn"
    /\ \E isCorrect \in BOOLEAN, variance \in VarianceRange :
          /\ (battleState = "player-turn") => (submits < MaxSubmits)
          /\ submitAnswer(isCorrect, variance)
    /\ ui' = [ui EXCEPT !.setBattleState = battleState',
                        !.returnTimer = ui.returnTimer \/ lastResult'.victory,
                        !.handlerBranch = IF lastResult'.victory THEN "victory"
                                          ELSE IF battleState' = "defeat" THEN "defeat"
                                          ELSE "neither"]
    /\ UNCHANGED <<fn, audio>>

\* mutant of UIPoll: the update is applied whatever state the manager is in
UIPollWithoutCheck ==
    /\ ui.mounted
    /\ ui.polling
    /\ ui' = [ui EXCEPT !.setBattleState = battleState, !.polling = FALSE,
                        !.applied = ui.applied + 1]
    /\ UNCHANGED <<battleVars, fn, audio>>

\* a tick of the polling interval that sees the manager's new state: it
\* applies the update and clears the interval (a tick that still sees
\* 'enemy-turn' changes nothing)
UIPoll ==
    /\ ui.mounted
    /\ ui.polling
    /\ battleState # "enemy-turn"
    /\ ui' = [ui EXCEPT !.setBattleState = battleState, !.polling = FALSE,
                        !.applied = ui.applied + 1]
    /\ UNCHANGED <<battleVars, fn, audio>>

\* the Flee button: onReturnToMap unmounts BattleUI and the manager is dropped
UIFlee ==
    /\ ui.mounted
    /\ ui' = [ui EXCEPT !.mounted = FALSE, !.returnTimer = FALSE, !.polling = FALSE]
    /\ UNCHANGED <<battleVars, fn, audio>>

\* setTimeout(() => onReturnToMap(), 3000) after a victory
UIReturnToMap ==
    /\ ui.mounted
    /\ ui.returnTimer
    /\ ui' = [ui EXCEPT !.mounted = FALSE, !.returnTimer = FALSE, !.polling = FALSE]
    /\ UNCHANGED <<battleVars, fn, audio>>

NextUI == UIMount \/ UIRender \/ UISubmit \/ UIPoll \/ UIFlee \/ UIReturnToMap
             \/ TimerFires

SpecUI == InitUI /\ [][NextUI]_vars

\* BattleUI when React renders, the polling interval ticks and the timers fire
SpecUIRuns ==
    /\ InitUI
    /\ [][NextUI]_vars
    /\ WF_vars(UIRender)
    /\ WF_vars(UIPoll)
    /\ WF_vars(TimerFires)

(***************************************************************************)
(* The same battle with a Problem Generator that can return nothing.        *)
(***************************************************************************)
UnreliableGeneratorSetups ==
    { [hero |-> SeasonedHero,
       config |-> [grade |-> 1, unitDifficulty |-> 0, difficulty |-> "medium",
                   generatorCanFail |-> TRUE]] }

InitUnreliableGenerator ==
    /\ \E setup \in UnreliableGeneratorSetups : hero = setup.hero /\ config = setup.config
    /\ Constructed
    /\ audio = AudioManager(TRUE)
    /\ fn = FnIdle

SpecUnreliableGenerator == InitUnreliableGenerator /\ [][Next]_vars

(***************************************************************************)
(* The pure functions, applied to arguments drawn from bounded ranges.      *)
(***************************************************************************)
InitFn ==
    /\ hero = FreshHero
    /\ config = [grade |-> 1, unitDifficulty |-> 1, difficulty |-> "medium",
                 generatorCanFail |-> FALSE]
    /\ Constructed
    /\ audio = AudioManager(TRUE)
    /\ fn = FnIdle

\* one call of calculateDamage
CallCalculateDamage ==
    /\ fn.op = "none"
    /\ \E attack \in 0..MaxAttack, bonus \in 0..MaxBonus, defense \in 0..MaxDefense,
          wasCorrect \in BOOLEAN, variance \in VarianceRange :
          fn' = [FnIdle EXCEPT !.op = "calculateDamage", !.attack = attack,
                               !.bonus = bonus, !.defense = defense,
                               !.wasCorrect = wasCorrect, !.variance = variance,
                               !.result = calculateDamage(attack, bonus, defense,
                                                          wasCorrect, variance)]
    /\ UNCHANGED <<battleVars, ui, audio>>

\* one call of figureOutHowMuchDamageTheBossDoes
CallCapBossDamage ==
    /\ fn.op = "none"
    /\ \E nominal \in 1..MaxNominal, level \in 1..MaxLevel, maxHP \in 1..MaxHeroHP :
          fn' = [FnIdle EXCEPT !.op = "capBossDamage", !.nominal = nominal,
                               !.level = level, !.maxHP = maxHP,
                               !.result = figureOutHowMuchDamageTheBossDoes(nominal, level, maxHP)]
    /\ UNCHANGED <<battleVars, ui, audio>>

\* one call of applyDamage on a target's stats
CallApplyDamage ==
    /\ fn.op = "none"
    /\ \E currentHP \in 0..MaxTargetHP, amount \in (0 - MaxAmount)..MaxAmount :
          LET stats == CharacterStats(MaxTargetHP, currentHP, 10, 5, 1, 0, 100, 0)
              after == applyDamage(stats, amount)
          IN  fn' = [FnIdle EXCEPT !.op = "applyDamage", !.stats = stats,
                                   !.amount = amount, !.after = after,
                                   !.returned = isAlive(after)]
    /\ UNCHANGED <<battleVars, ui, audio>>

\* one call of addExperience on a hero's stats
CallAddExperience ==
    /\ fn.op = "none"
    /\ \E stats \in {FreshHero, FrailHero, SeasonedHero, TinyHero}, exp \in 0..MaxExp :
          LET outcome == addExperience(stats, exp)
          IN  fn' = [FnIdle EXCEPT !.op = "addExperience", !.stats = stats, !.exp = exp,
                                   !.after = outcome.stats,
                                   !.returned = outcome.leveledUp]
    /\ UNCHANGED <<battleVars, ui, audio>>

\* one call of levelUp
CallLevelUp ==
    /\ fn.op = "none"
    /\ \E maxHP \in 1..MaxHeroHP, attack \in 0..MaxAttack, defense \in 0..MaxHeroDefense,
          level \in 1..MaxLevel, toNext \in (1..MaxToNext) \cup {FreshHero.experienceToNextLevel} :
          \E currentHP \in {0, maxHP \div 2, maxHP} :
             LET stats == CharacterStats(maxHP, currentHP, attack, defense, level, 0, toNext, 0)
             IN  fn' = [FnIdle EXCEPT !.op = "levelUp", !.stats = stats,
                                      !.after = levelUp(stats)]
    /\ UNCHANGED <<battleVars, ui, audio>>

\* STEP 1 of startBattle for one grade, unit difficulty (0: the unit has
\* none) and difficulty
CallEnemyDifficultyLevel ==
    /\ fn.op = "none"
    /\ \E grade \in 1..MaxGrade, unitDifficulty \in 0..MaxUnitDifficulty,
          difficulty \in DifficultyKeys :
          fn' = [FnIdle EXCEPT !.op = "enemyDifficultyLevel", !.grade = grade,
                               !.unitDifficulty = unitDifficulty,
                               !.difficulty = difficulty,
                               !.result = enemyDifficultyLevel(grade, unitDifficulty,
                                                               difficulty)]
    /\ UNCHANGED <<battleVars, ui, audio>>

(***************************************************************************)
(* DungeonSearcher: binarySearchGrade on arrays sorted by grade.            *)
(***************************************************************************)
\* what a search returns when it finds nothing
NullGrade == [grade |-> 0 - 1]

\* [...curriculumData.grades].sort((a, b) => a.grade - b.grade) for grade
\* objects with the grade numbers of the set S
RECURSIVE sortedGradesOf(_)
sortedGradesOf(S) ==
    IF S = {} THEN <<>>
    ELSE LET least == CHOOSE g \in S : \A h \in S : g <= h
         IN  <<[grade |-> least]>> \o sortedGradesOf(S \ {least})

\* mutant of binarySearchGrade: the search stops when left meets right
RECURSIVE binarySearchGradeStopsEarly(_, _, _, _)
binarySearchGradeStopsEarly(sortedGrades, targetGrade, left, right) ==
    IF left >= right THEN NullGrade
    ELSE LET mid == (left + right) \div 2
             midGrade == sortedGrades[mid + 1]
         IN  IF midGrade.grade = targetGrade THEN midGrade
             ELSE IF midGrade.grade < targetGrade
                  THEN binarySearchGradeStopsEarly(sortedGrades, targetGrade, mid + 1, right)
                  ELSE binarySearchGradeStopsEarly(sortedGrades, targetGrade, left, mid - 1)

\* binarySearchGrade(sortedGrades, targetGrade, left, right); the array is
\* indexed from 0 in the code and from 1 here
RECURSIVE binarySearchGrade(_, _, _, _)
binarySearchGrade(sortedGrades, targetGrade, left, right) ==
    IF left > right THEN NullGrade
    ELSE LET mid == (left + right) \div 2
             midGrade == sortedGrades[mid + 1]
         IN  IF midGrade.grade = targetGrade THEN midGrade
             ELSE IF midGrade.grade < targetGrade
                  THEN binarySearchGrade(sortedGrades, targetGrade, mid + 1, right)
                  ELSE binarySearchGrade(sortedGrades, targetGrade, left, mid - 1)

\* the calls of binarySearchGrade that one search makes
RECURSIVE binarySearchGradeCalls(_, _, _, _)
binarySearchGradeCalls(sortedGrades, targetGrade, left, right) ==
    IF left > right THEN 1
    ELSE LET mid == (left + right) \div 2
             midGrade == sortedGrades[mid + 1]
         IN  IF midGrade.grade = targetGrade THEN 1
             ELSE IF midGrade.grade < targetGrade
                  THEN 1 + binarySearchGradeCalls(sortedGrades, targetGrade, mid + 1, right)
                  ELSE 1 + binarySearchGradeCalls(sortedGrades, targetGrade, left, mid - 1)

\* DungeonSearcher.findGrade(gradeNumber)
findGrade(sortedGrades, gradeNumber) ==
    binarySearchGrade(sortedGrades, gradeNumber, 0, Len(sortedGrades) - 1)

\* one call of findGrade on a searcher built from some set of grades
CallFindGrade ==
    /\ fn.op = "none"
    /\ \E grades \in SUBSET (1..MaxSearchGrade), gradeNumber \in 0..(MaxSearchGrade + 1) :
          LET sortedGrades == sortedGradesOf(grades)
          IN  fn' = [op |-> "findGrade", sortedGrades |-> sortedGrades,
                     gradeNumber |-> gradeNumber,
                     result |-> findGrade(sortedGrades, gradeNumber),
                     calls |-> binarySearchGradeCalls(sortedGrades, gradeNumber, 0,
                                                      Len(sortedGrades) - 1)]
    /\ UNCHANGED <<battleVars, ui, audio>>

NextSearchGrade == CallFindGrade

SpecSearchGrade == InitFn /\ [][NextSearchGrade]_vars

(***************************************************************************)
(* DungeonSearcher.findUnit: the units are sorted with localeCompare and   *)
(* searched with the < of strings.  A name is the sequence of its UTF-16   *)
(* code units, here out of 'A', 'B', 'a', 'b'.                             *)
(***************************************************************************)
Letters == {65, 66, 97, 98}

UnitNames == UNION {[1..n -> Letters] : n \in 1..MaxNameLen}

\* the letter of a code unit without its case
FoldCase(c) == IF c >= 97 THEN c - 32 ELSE c

\* a < b of two strings: code unit by code unit, a proper prefix first
RECURSIVE stringLess(_, _)
stringLess(a, b) ==
    IF b = <<>> THEN FALSE
    ELSE IF a = <<>> THEN TRUE
    ELSE IF Head(a) # Head(b) THEN Head(a) < Head(b)
    ELSE stringLess(Tail(a), Tail(b))

\* the letters of a string without their case
foldedName(a) == [i \in 1..Len(a) |-> FoldCase(a[i])]

\* the case difference that decides between strings of the same letters:
\* at the first place where the case differs, the lower case comes first
RECURSIVE lowerCaseFirst(_, _)
lowerCaseFirst(a, b) ==
    IF a = <<>> \/ b = <<>> THEN FALSE
    ELSE IF Head(a) # Head(b) THEN Head(a) > Head(b)
    ELSE lowerCaseFirst(Tail(a), Tail(b))

\* a.localeCompare(b) < 0: the letters decide, whatever their case, and
\* only between strings of the same letters the case
localeLess(a, b) ==
    IF foldedName(a) # foldedName(b)
    THEN stringLess(foldedName(a), foldedName(b))
    ELSE lowerCaseFirst(a, b)

\* what a unit search returns when it finds nothing
NullUnit == [name |-> <<>>]

\* [...grade.units].sort((a, b) => a.name.localeCompare(b.name))
RECURSIVE sortedUnitsOf(_)
sortedUnitsOf(units) ==
    IF units = {} THEN <<>>
    ELSE LET first == CHOOSE u \in units :
                          \A v \in units \ {u} : localeLess(u.name, v.name)
         IN  <<first>> \o sortedUnitsOf(units \ {first})

\* binarySearchUnit(sortedUnits, targetUnitName, left, right)
RECURSIVE binarySearchUnit(_, _, _, _)
binarySearchUnit(sortedUnits, targetUnitName, left, right) ==
    IF left > right THEN NullUnit
    ELSE LET mid == (left + right) \div 2
             midUnit == sortedUnits[mid + 1]
         IN  IF midUnit.name = targetUnitName THEN midUnit
             ELSE IF stringLess(midUnit.name, targetUnitName)
                  THEN binarySearchUnit(sortedUnits, targetUnitName, mid + 1, right)
                  ELSE binarySearchUnit(sortedUnits, targetUnitName, left, mid - 1)

\* DungeonSearcher.findUnit(gradeNumber, unitName)
findUnit(sortedGrades, gradeNumber, unitName) ==
    LET grade == findGrade(sortedGrades, gradeNumber)
    IN  IF grade = NullGrade THEN NullUnit
        ELSE LET sortedUnits == sortedUnitsOf(grade.units)
             IN  binarySearchUnit(sortedUnits, unitName, 0, Len(sortedUnits) - 1)

\* one call of findUnit on a searcher whose curriculum has grade 1 only
CallFindUnit ==
    /\ fn.op = "none"
    /\ \E names \in SUBSET UnitNames, gradeNumber \in {1, 2}, unitName \in UnitNames :
          /\ Cardinality(names) <= MaxUnits
          /\ LET units == {[name |-> n] : n \in names}
                 sortedGrades == <<[grade |-> 1, units |-> units]>>
             IN  fn' = [op |-> "findUnit", units |-> units, gradeNumber |-> gradeNumber,
                        unitName |-> unitName,
                        result |-> findUnit(sortedGrades, gradeNumber, unitName)]
    /\ UNCHANGED <<battleVars, ui, audio>>

NextSearchUnit == CallFindUnit

SpecSearchUnit == InitFn /\ [][NextSearchUnit]_vars

(***************************************************************************)
(* AudioManager: background music.  Oscillators are numbered in the order  *)
(* of their creation; running holds those started and not stopped.         *)
(***************************************************************************)
InitAudio ==
    /\ hero = FreshHero
    /\ config = [grade |-> 1, unitDifficulty |-> 1, difficulty |-> "medium",
                 generatorCanFail |-> FALSE]
    /\ Constructed
    /\ fn = FnIdle
    /\ \E hasContext \in BOOLEAN : audio = AudioManager(hasContext)

\* AudioManager.playBackgroundMusic()
playBackgroundMusic ==
    IF ~audio.audioContext \/ ~audio.soundEnabled
    THEN audio' = [audio EXCEPT !.lastCall = "playBackgroundMusic"]
    ELSE LET oscillator == audio.created + 1
         IN  audio' = [audio EXCEPT !.created = oscillator,
                                    !.running = audio.running \cup {oscillator},
                                    !.backgroundMusic = oscillator,
                                    !.lastCall = "playBackgroundMusic"]

\* AudioManager.stopBackgroundMusic(): the audio object afterwards
stopBackgroundMusic(a) ==
    IF a.backgroundMusic # 0
    THEN [a EXCEPT !.running = a.running \ {a.backgroundMusic},
                   !.backgroundMusic = 0]
    ELSE a

\* AudioManager.setSoundEnabled(enabled)
setSoundEnabled(enabled) ==
    LET set == [audio EXCEPT !.soundEnabled = enabled]
    IN  audio' = [(IF ~enabled THEN stopBackgroundMusic(set) ELSE set)
                     EXCEPT !.lastCall = IF enabled THEN "setSoundEnabled(true)"
                                         ELSE "setSoundEnabled(false)"]

CallPlayBackgroundMusic ==
    /\ audio.created < MaxOscillators
    /\ playBackgroundMusic
    /\ UNCHANGED <<battleVars, fn, ui>>

CallStopBackgroundMusic ==
    /\ audio' = [stopBackgroundMusic(audio) EXCEPT !.lastCall = "stopBackgroundMusic"]
    /\ UNCHANGED <<battleVars, fn, ui>>

CallSetSoundEnabled ==
    /\ \E enabled \in BOOLEAN : setSoundEnabled(enabled)
    /\ UNCHANGED <<battleVars, fn, ui>>

NextAudio == CallPlayBackgroundMusic \/ CallStopBackgroundMusic \/ CallSetSoundEnabled

SpecAudio == InitAudio /\ [][NextAudio]_vars

NextFn ==
    \/ CallCalculateDamage
    \/ CallApplyDamage
    \/ CallCapBossDamage
    \/ CallAddExperience
    \/ CallLevelUp
    \/ CallEnemyDifficultyLevel

SpecFn == InitFn /\ [][NextFn]_vars

(***************************************************************************)
(* Properties                                                               *)
(***************************************************************************)
Terminal == {"victory", "defeat"}
EnemyTurnOps == {"enemyTurn", "timer:enemyTurn"}

\* C1: once battleState is victory or defeat, a call of submitAnswer or of
\* enemyTurn (by a caller or by a timer that was still pending) changes
\* neither battleState, the hero, the enemy nor the battle log.
C1_TerminalCallsAreNoOps ==
    [][(battleState \in Terminal /\ lastOp' \in EnemyTurnOps \cup {"submitAnswer"})
          => UNCHANGED <<battleState, hero, enemy, battleMessageHistory>>]_vars

\* a timer that was still pending at the victory has fired
C1_Witness == battleState = "victory" /\ lastOp = "timer:enemyTurn"

\* C2: outside player-turn, submitAnswer returns the "Not your turn!" result
\* and leaves the hero, the enemy, battleState, the current problem and the
\* log as they were, and sets no timer for an enemy turn.
C2_RejectedSubmitHasNoEffect ==
    [][(battleState # "player-turn" /\ lastOp' = "submitAnswer")
          => /\ lastResult' = NotYourTurn
             /\ UNCHANGED <<hero, enemy, battleState, currentMathProblem,
                            battleMessageHistory, pendingTimers>>]_vars

\* an answer was submitted, and rejected, while the enemy's turn was pending
C2_Witness ==
    /\ battleState = "enemy-turn"
    /\ lastOp = "submitAnswer"
    /\ lastResult = NotYourTurn
    /\ pendingTimers = 1

C6_AcceptedAnswerDealsDamage ==
    [][(battleState = "player-turn" /\ lastOp' = "submitAnswer")
          => enemy'.currentHP < enemy.currentHP]_vars

\* C7: the hero and the enemy both have 0 <= currentHP <= maxHP in every
\* reachable state.
C7_HealthWithinBounds ==
    /\ 0 <= hero.currentHP /\ hero.currentHP <= hero.maxHP
    /\ 0 <= enemy.currentHP /\ enemy.currentHP <= enemy.maxHP

\* a wounded hero won and levelled up
C7_Witness ==
    /\ battleState = "victory"
    /\ lastResult.leveledUp
    /\ 0 < hero.currentHP /\ hero.currentHP < hero.maxHP

\* the changes of battleState the state machine allows, with the operation
\* that makes each
AllowedTransitions ==
    { <<"waiting", "startBattle", "player-turn">>,
      <<"player-turn", "submitAnswer", "enemy-turn">>,
      <<"player-turn", "submitAnswer", "victory">>,
      <<"enemy-turn", "enemyTurn", "player-turn">>,
      <<"enemy-turn", "timer:enemyTurn", "player-turn">>,
      <<"enemy-turn", "enemyTurn", "defeat">>,
      <<"enemy-turn", "timer:enemyTurn", "defeat">> }

\* C8: every change of battleState is one of the allowed transitions, and
\* startBattle takes effect only from waiting.
C8_OnlyAllowedTransitions ==
    [][/\ battleState' # battleState
            => <<battleState, lastOp', battleState'>> \in AllowedTransitions
       /\ battles' # battles => battleState = "waiting"]_vars

\* C9: the submitAnswer that brings the enemy's currentHP to 0 ends in
\* victory and sets no timer, and from then on the hero's currentHP is not
\* reduced in that battle.
C9_VictoryWithinTheCall ==
    [][/\ (enemy.currentHP > 0 /\ enemy'.currentHP = 0 /\ battles' = battles)
            => (battleState' = "victory" /\ pendingTimers' = pendingTimers)
       /\ (battleState = "victory" /\ battles' = battles)
            => hero'.currentHP >= hero.currentHP]_vars

\* a battle was won by a later answer, every timer already gone
C9_Witness ==
    /\ battleState = "victory"
    /\ lastOp = "submitAnswer"
    /\ enemy.currentHP = 0
    /\ submits >= 2
    /\ pendingTimers = 0

\* C10: an enemyTurn run in enemy-turn ends in defeat exactly when the
\* hero's currentHP is 0 after the hit, and otherwise in player-turn.
C10_EnemyTurnEndsTheTurn ==
    [][(battleState = "enemy-turn" /\ lastOp' \in EnemyTurnOps)
          => /\ battleState' \in {"defeat", "player-turn"}
             /\ (battleState' = "defeat") <=> (hero'.currentHP = 0)]_vars

\* the timer's enemy turn knocked the hero out
C10_Witness ==
    /\ battleState = "defeat"
    /\ lastOp = "timer:enemyTurn"
    /\ hero.currentHP = 0

\* C11: between an accepted submitAnswer that leaves the enemy alive and the
\* enemy turn that answers it no further submitAnswer is accepted, so the
\* attacks that take effect alternate, the player's first: a submitAnswer
\* is accepted only when the last attack was not the player's, and an
\* enemyTurn takes effect only when the last attack was the player's.
C11_AttacksAlternate ==
    [][/\ submits' = submits + 1 => lastAttack # "player"
       /\ (lastOp' \in EnemyTurnOps /\ battleState = "enemy-turn")
            => lastAttack = "player"]_vars

\* a step in which submitAnswer wins the battle
WinningSubmit ==
    battleState = "player-turn" /\ lastOp' = "submitAnswer" /\ battleState' = "victory"

\* C12: the winning submitAnswer returns expGained = floor(enemy.level * 10
\* * experienceMultiplier) and goldGained = floor(enemy.level * 15 *
\* experienceMultiplier), adds exactly goldGained to the hero's gold, leaves
\* the rest of the hero as addExperience(expGained) makes it, and returns
\* leveledUp exactly when the hero's level rose.
C12_VictoryRewards ==
    [][WinningSubmit =>
          LET multiplier10 == GAME_DIFFICULTY_SETTINGS[config.difficulty].experienceMultiplier
              expGained == (enemy.level * 10 * multiplier10) \div 10
              goldGained == (enemy.level * 15 * multiplier10) \div 10
          IN  /\ lastResult'.expGained = expGained
              /\ lastResult'.goldGained = goldGained
              /\ hero'.gold = hero.gold + goldGained
              /\ [hero' EXCEPT !.gold = hero.gold] = addExperience(hero, expGained).stats
              /\ lastResult'.leveledUp <=> (hero'.level > hero.level)]_vars

\* a second victory of a hero that the first one took to level 4: 8 exp and
\* 12 gold on easy, and no level-up this time
C12_Witness ==
    /\ battleState = "victory"
    /\ lastOp = "submitAnswer"
    /\ config.difficulty = "easy"
    /\ lastResult.expGained = 8
    /\ lastResult.goldGained = 12
    /\ ~lastResult.leveledUp
    /\ hero.level = 4
    /\ hero.gold = 64

\* C13: in one battle save() is called exactly once if the battle is won and
\* never otherwise: every winning submitAnswer calls it once and writes the
\* hero with the experience and the gold of the victory already applied, no
\* other step calls it, and a battle is won at most once.
C13_SavedOnceOnVictory ==
    [][/\ WinningSubmit => (saveCount' = saveCount + 1 /\ savedData' = hero')
       /\ ~WinningSubmit => UNCHANGED <<saveCount, savedData>>
       /\ (battleState = "victory" /\ battles' = battles) => battleState' = "victory"]_vars

\* the one save of a won battle holds the levelled-up hero and its new gold
C13_Witness ==
    /\ battleState = "victory"
    /\ battles = 1
    /\ saveCount = 1
    /\ lastResult.leveledUp
    /\ savedData = hero
    /\ savedData.gold = 40 + lastResult.goldGained
    /\ savedData.level = 4

\* C14: for stats with experienceToNextLevel > 0, addExperience(exp) with
\* exp >= experienceToNextLevel levels up at least once and returns true,
\* and after every addExperience call the experience is below the (new)
\* experienceToNextLevel; the loop ends.
C14_AddExperienceLevelsUp ==
    (fn.op = "addExperience" /\ fn.stats.experienceToNextLevel > 0)
       => /\ fn.exp >= fn.stats.experienceToNextLevel
               => (fn.returned /\ fn.after.level > fn.stats.level)
          /\ fn.after.experience < fn.after.experienceToNextLevel

\* one award took a hero up several levels and left less than the next needs
C14_Witness ==
    /\ fn.op = "addExperience"
    /\ fn.exp >= fn.stats.experienceToNextLevel
    /\ fn.returned
    /\ fn.after.level >= fn.stats.level + 3
    /\ fn.after.experience > 0

\* C15: no operation of the battle lowers the hero's level, and on the hero
\* as any operation leaves it addExperience(0) returns false and keeps the
\* level.
C15_LevelNeverDecreases ==
    [][/\ hero'.level >= hero.level
       /\ LET again == addExperience(hero', 0)
          IN  again.stats.level = hero'.level /\ ~again.leveledUp]_vars

\* a victory raised the hero's level, and the battle went on to a second one
C15_Witness ==
    /\ battles = 2
    /\ battleState = "enemy-turn"
    /\ hero.level = 4
    /\ hero.experience > 0
    /\ saveCount = 1

\* one level-up as claimed: level + 1, maxHP * 1.20, attack * 1.15,
\* defense * 1.10 and experienceToNextLevel * 1.50, each floored, and
\* currentHP raised by the maxHP gained
ClaimedLevelUp(s) ==
    [maxHP |-> (s.maxHP * 6) \div 5,
     currentHP |-> s.currentHP + ((s.maxHP * 6) \div 5 - s.maxHP),
     attack |-> (s.attack * 23) \div 20,
     defense |-> (s.defense * 11) \div 10,
     level |-> s.level + 1,
     experience |-> s.experience,
     experienceToNextLevel |-> (s.experienceToNextLevel * 3) \div 2,
     gold |-> s.gold,
     equippedWeapon |-> s.equippedWeapon]

\* n level-ups one after the other, each paid from the experience
RECURSIVE ClaimedLevelUps(_, _)
ClaimedLevelUps(s, n) ==
    IF n = 0 THEN s
    ELSE ClaimedLevelUps(
             ClaimedLevelUp([s EXCEPT !.experience = s.experience - s.experienceToNextLevel]),
             n - 1)

\* C16: levelUp sets level + 1, maxHP = floor(maxHP * 1.20), attack =
\* floor(attack * 1.15), defense = floor(defense * 1.10),
\* experienceToNextLevel = floor(experienceToNextLevel * 1.50) and adds
\* (new maxHP - old maxHP) to currentHP; the level-ups of one award are
\* these steps one after the other; and level 1, maxHP 400, attack 10,
\* defense 5, 100 to the next level awarded 150 gives level 2, 50 left,
\* maxHP 480, attack 11, defense 5, 150 to the next level.
C16_LevelUpFormulas ==
    /\ fn.op = "levelUp" => fn.after = ClaimedLevelUp(fn.stats)
    /\ fn.op = "addExperience"
          => fn.after = ClaimedLevelUps([fn.stats EXCEPT !.experience = fn.stats.experience + fn.exp],
                                        fn.after.level - fn.stats.level)
    /\ (fn.op = "addExperience" /\ fn.exp = 150
          /\ fn.stats = CharacterStats(400, 400, 10, 5, 1, 0, 100, 0))
          => (fn.after = CharacterStats(480, 480, 11, 5, 2, 50, 150, 0) /\ fn.returned)

\* the level 1 hero of the example was awarded 150 experience
C16_Witness ==
    /\ fn.op = "addExperience"
    /\ fn.exp = 150
    /\ fn.stats = CharacterStats(400, 400, 10, 5, 1, 0, 100, 0)
    /\ fn.after.level = 2
    /\ fn.after.experience = 50


\* C17: startBattle sets the battle log to exactly one opening line, and
\* within the battle every other step leaves the log as it is or appends
\* to it: the log before the step is a prefix of the log after it.
C17_LogIsAppendOnly ==
    [][/\ battles' # battles => battleMessageHistory' = <<"appeared">>
       /\ battles' = battles
            => /\ Len(battleMessageHistory') >= Len(battleMessageHistory)
               /\ SubSeq(battleMessageHistory', 1, Len(battleMessageHistory))
                      = battleMessageHistory]_vars

\* a lost battle's log: the opening line, answers and attacks, the defeat
C17_Witness ==
    /\ battleState = "defeat"
    /\ Len(battleMessageHistory) >= 6
    /\ battleMessageHistory[1] = "appeared"
    /\ battleMessageHistory[Len(battleMessageHistory)] = "defeat"

\* an enemyTurn that runs and leaves the hero alive
SurvivedEnemyTurn ==
    battleState = "enemy-turn" /\ lastOp' \in EnemyTurnOps /\ hero'.currentHP > 0

\* C18: the Problem Generator is called exactly once by startBattle and
\* exactly once by every enemyTurn that leaves the hero alive, and by no
\* other step; so every entry into player-turn has one call, and the
\* problem that call returns is the current one from then on.
C18_OneProblemPerPlayerTurn ==
    [][/\ problemsGenerated' - problemsGenerated
            = IF battles' # battles \/ SurvivedEnemyTurn THEN 1 ELSE 0
       /\ (battleState' = "player-turn" /\ (battles' # battles \/ battleState # "player-turn"))
            => /\ problemsGenerated' = problemsGenerated + 1
               /\ generatorFailures' = generatorFailures
                    => /\ currentMathProblem' = problemsGenerated'
                       /\ currentMathProblem' # currentMathProblem]_vars

\* the third problem of a battle: one at the start, one after each of two
\* enemy turns, none for the answers or for the rejected call in between
C18_Witness ==
    /\ battles = 1
    /\ battleState = "player-turn"
    /\ lastOp = "timer:enemyTurn"
    /\ submits = 2
    /\ turnSystem.turnCount = 2
    /\ problemsGenerated = 3
    /\ currentMathProblem = 3

\* C19: the orchestrator is never in player-turn with no current problem
\* or with a problem of an earlier turn, also when the Problem Generator
\* returns nothing.
C19_PlayerTurnHasFreshProblem ==
    battleState = "player-turn"
       => (currentMathProblem # 0 /\ currentMathProblem = problemsGenerated)

\* C20: for every grade 1..12, every unit difficulty or none and every
\* difficulty, the difficulty tier startBattle gives to enemy creation is at
\* most 5.
C20_TierAtMostFive ==
    fn.op = "enemyDifficultyLevel" => fn.result <= 5

\* C21: for the same grade and unit the difficulty tier under hard is not
\* below the tier under medium, and the tier under nightmare is not below
\* the tier under hard.
C21_TierGrowsWithDifficulty ==
    /\ (fn.op = "enemyDifficultyLevel" /\ fn.difficulty = "hard")
          => fn.result >= enemyDifficultyLevel(fn.grade, fn.unitDifficulty, "medium")
    /\ (fn.op = "enemyDifficultyLevel" /\ fn.difficulty = "nightmare")
          => fn.result >= enemyDifficultyLevel(fn.grade, fn.unitDifficulty, "hard")

\* C22: for the same hero attack, enemy defense, variance roll and
\* difficulty, the damage submitAnswer deals for a wrong answer is not
\* greater than the damage it deals for a correct answer.
C22_WrongAnswerDealsNoMore ==
    battleState = "player-turn"
       => \A variance \in VarianceRange :
             playerDamage(FALSE, variance) <= playerDamage(TRUE, variance)

C24_ResultCarriesTheAttack ==
    [][(battleState = "player-turn" /\ lastOp' = "submitAnswer")
          => /\ {"correct", "damage", "enemyHP", "victory"} \subseteq lastResult'.keys
             /\ lastResult'.victory <=> (battleState' = "victory")]_vars

\* C25: turnCount is 0 right after startBattle and within a battle rises by
\* one with every enemyTurn that closes an exchange (it runs and leaves the
\* hero alive) and with nothing else; so after k completed exchanges it is k.
C25_TurnCountCountsExchanges ==
    [][/\ battles' # battles => turnSystem'.turnCount = 0
       /\ battles' = battles
            => turnSystem'.turnCount
                  = turnSystem.turnCount + (IF SurvivedEnemyTurn THEN 1 ELSE 0)]_vars

\* three exchanges of one battle are complete
C25_Witness ==
    /\ battles = 1
    /\ battleState = "player-turn"
    /\ submits = 3
    /\ hitsSinceFull = 3
    /\ turnSystem = [currentTurn |-> "player", turnCount |-> 3]

\* C26: the damage of the hero's attack in submitAnswer is computed from the
\* base hero.attack + the equipped weapon's damage bonus, for every variance
\* roll and either correctness.
C26_WeaponBonusCounts ==
    battleState = "player-turn"
       => \A isCorrect \in BOOLEAN, variance \in VarianceRange :
             LET base == calculateDamage(hero.attack, hero.equippedWeapon.damageBonus,
                                         enemy.defense, isCorrect, variance)
                 scaled == Scale10(base, difficultySettings.playerDamageMultiplier)
                 withWeapon == IF isCorrect THEN scaled
                               ELSE Max(1, Scale10(scaled,
                                                   difficultySettings.wrongAnswerPenalty))
             IN  playerDamage(isCorrect, variance) = withWeapon

\* C27: whenever the battle is in 'enemy-turn' (an accepted non-winning
\* submitAnswer put it there and set the timer), it later is in 'player-turn'
\* or 'defeat', given that every timer set eventually fires; and 'enemy-turn'
\* is left for no other state.
C27_EnemyTurnEnds ==
    /\ [][battleState = "enemy-turn"
            => battleState' \in {"enemy-turn", "player-turn", "defeat"}]_vars
    /\ (battleState = "enemy-turn") ~> (battleState \in {"player-turn", "defeat"})

\* the timer set by submitAnswer has run the enemy's turn
C27_Witness ==
    /\ lastOp = "timer:enemyTurn"
    /\ lastAttack = "enemy"
    /\ submits >= 1
    /\ battleState \in {"player-turn", "defeat"}

\* C28: when the player answers whenever it is their turn and every timer
\* fires, a battle that is under way ('player-turn' or 'enemy-turn') later
\* is in 'victory' or 'defeat', whatever the answers, the variance rolls and
\* the difficulty.
C28_BattleEnds ==
    (battleState \in {"player-turn", "enemy-turn"}) ~> (battleState \in Terminal)

\* a battle ended by the enemy after right and wrong answers
C28_Witness ==
    /\ battleState = "defeat"
    /\ lastOp = "timer:enemyTurn"
    /\ battles = 1
    /\ submits >= 3

\* C29: once the player has fled (BattleUI is unmounted after its battle
\* began), no step changes the persistent hero's stats; in particular the
\* enemy-turn timer still pending does not lower the hero's currentHP.
C29_FledBattleLeavesHeroAlone ==
    [][(battles >= 1 /\ ~ui.mounted) => hero' = hero]_vars

\* C30: when the submit handler runs again right after an accepted run,
\* before a render (it still sees battleState 'player-turn'), the manager
\* rejects the call: the enemy's health is not reduced again and no second
\* enemy turn is scheduled.  (Such a step calls submitAnswer and sets the
\* state that BattleUI already holds; every other step of BattleUI changes ui.)
C30_SecondSubmitRejected ==
    [][(/\ ui.mounted
        /\ ui.battleState = "player-turn"
        /\ ui.setBattleState # "player-turn"
        /\ lastOp = "submitAnswer"
        /\ lastOp' = "submitAnswer"
        /\ ui' = ui)
          => /\ lastResult' = NotYourTurn
             /\ enemy' = enemy
             /\ submits' = submits
             /\ pendingTimers' = pendingTimers]_vars

\* the handler ran twice before a render: one attack, one timer
C30_Witness ==
    /\ ui.mounted
    /\ ui.battleState = "player-turn"
    /\ battleState = "enemy-turn"
    /\ lastOp = "submitAnswer"
    /\ lastResult = NotYourTurn
    /\ submits = 1
    /\ pendingTimers = 1

\* enemy turns that the manager of BattleUI's one battle has resolved
EnemyTurnsResolved ==
    turnSystem.turnCount + (IF battleState = "defeat" THEN 1 ELSE 0)

\* C31: the polling effect applies an update only when the manager has left
\* 'enemy-turn', and then stops polling; it applies no more updates than
\* enemy turns were resolved, and while BattleUI stays mounted every
\* resolved enemy turn eventually has its one update applied.
C31_PollingAppliesOnce ==
    /\ [][ui'.applied # ui.applied
            => /\ battleState # "enemy-turn"
               /\ ui.polling /\ ~ui'.polling
               /\ ui'.applied = ui.applied + 1
               /\ ui'.setBattleState = battleState]_vars
    /\ [](ui.applied <= EnemyTurnsResolved)
    /\ (ui.mounted /\ ui.applied < EnemyTurnsResolved)
          ~> (ui.applied = EnemyTurnsResolved \/ ~ui.mounted)

\* two enemy turns were resolved and each update was applied and rendered
C31_Witness ==
    /\ ui.mounted
    /\ ui.applied = 2
    /\ EnemyTurnsResolved = 2
    /\ ui.battleState = "player-turn"
    /\ ~ui.polling

\* C32: the submit handler of BattleUI never takes its 'defeat' branch: when
\* battleManager.submitAnswer has returned to it, the manager's state is
\* not 'defeat'.
C32_HandlerNeverSeesDefeat ==
    ui.handlerBranch # "defeat"

\* the handler ran in the turn before the enemy's last blow
C32_Witness ==
    /\ battleState = "defeat"
    /\ ui.handlerBranch = "neither"
    /\ ui.battleState = "defeat"

\* C33: an accepted submitAnswer that does not win leaves the hero's stats
\* as they are; a call of enemyTurn leaves the enemy's stats as they are
\* and changes nothing of the hero but currentHP; and the hero's other
\* stats change in no step but a winning submitAnswer.
C33_Frame ==
    [][/\ (battleState = "player-turn" /\ lastOp' = "submitAnswer"
              /\ battleState' # "victory")
            => hero' = hero
       /\ lastOp' \in EnemyTurnOps
            => /\ enemy' = enemy
               /\ [hero' EXCEPT !.currentHP = hero.currentHP] = hero
       /\ [hero' EXCEPT !.currentHP = hero.currentHP] # hero
            => /\ battleState = "player-turn"
               /\ lastOp' = "submitAnswer"
               /\ battleState' = "victory"]_vars

\* an enemy turn has hit the hero, whose other stats are those of the start
C33_Witness ==
    /\ lastOp = "timer:enemyTurn"
    /\ battleState = "player-turn"
    /\ hero.currentHP < hero.maxHP
    /\ hero = [SeasonedHero EXCEPT !.currentHP = hero.currentHP]

\* the battle state and the two healths agree
StateAgreesWithHealth ==
    /\ (battleState = "victory") <=> (enemy.currentHP = 0)
    /\ (battleState = "defeat") <=> (hero.currentHP = 0)
    /\ battleState \in {"player-turn", "enemy-turn"}
          => (hero.currentHP > 0 /\ enemy.currentHP > 0)

\* C34: a battle started with a living hero begins with state and health
\* in agreement, and no step of the battle ends the agreement: 'victory'
\* exactly when the enemy's currentHP is 0, 'defeat' exactly when the
\* hero's is 0, and both above 0 in 'player-turn' and 'enemy-turn'.
C34_StateAgreesWithHealth ==
    [][/\ (battles' # battles /\ hero.currentHP > 0) => StateAgreesWithHealth'
       /\ (battles' = battles /\ battles >= 1 /\ StateAgreesWithHealth)
            => StateAgreesWithHealth']_vars

\* the first battle, begun with a living hero, has ended in defeat
C34_Witness ==
    /\ battles = 1
    /\ battleState = "defeat"
    /\ hero.currentHP = 0
    /\ enemy.currentHP > 0
    /\ submits >= 2

C38_BinarySearchGradeFinds ==
    fn.op = "findGrade"
       => LET hits == {i \in 1..Len(fn.sortedGrades) :
                          fn.sortedGrades[i].grade = fn.gradeNumber}
          IN  /\ hits # {} => \A i \in hits : fn.result = fn.sortedGrades[i]
              /\ hits = {} => fn.result = NullGrade
              /\ fn.calls <= Len(fn.sortedGrades) + 1

\* the last of seven grades was found
C38_Witness ==
    /\ fn.op = "findGrade"
    /\ Len(fn.sortedGrades) = 7
    /\ fn.gradeNumber = 7
    /\ fn.result = [grade |-> 7]
    /\ fn.calls = 3

\* C37: findUnit returns the unit of the found grade whose name is unitName
\* when the grade has one, and null otherwise, whatever the names are.
C37_FindUnitFinds ==
    fn.op = "findUnit"
       => IF fn.gradeNumber = 1 /\ [name |-> fn.unitName] \in fn.units
          THEN fn.result = [name |-> fn.unitName]
          ELSE fn.result = NullUnit

\* C39: when setSoundEnabled(false) has returned, no oscillator that
\* playBackgroundMusic started is still running.
C39_DisabledSoundIsSilent ==
    audio.lastCall = "setSoundEnabled(false)" => audio.running = {}

====
